---- MODULE Spec2Model ----
(***************************************************************************)
(* Model of shipyard-server's node service: the node collection, the       *)
(* add_task / remove_task / create / delete operations of NodeService run  *)
(* by concurrent requests, and the controllers' mapping of outcomes to     *)
(* HTTP statuses.  Every database call (find_one, insert_one,              *)
(* find_one_and_update, find_one_and_delete) is one atomic step; the code  *)
(* between two calls of one request runs with the later call.              *)
(***************************************************************************)
EXTENDS Integers, Sequences, FiniteSets, TLC

(* ----- bounds of the model ----- *)
NumClients == 2
MaxRequests == 3
MaxNodes == 2

Clients == 1..NumClients
\* An ObjectId no node has or will have: every absent id behaves like it.
AbsentId == MaxNodes + 1

(* ----- values ----- *)
\* Python's None where a document is expected.
None == [none |-> TRUE]
\* No ObjectId, no task id, no operation or outcome yet.
NoId == 0
NoTask == ""
Nothing == ""
NoArch == "any"
Names == {"Test1", "Test2"}

\* Capacity descriptors a created node may declare (tests: cpu_cores 4).
NodeCaps ==
    { [cpu_cores |-> 4, cpu_arch |-> "x86_64", devices |-> {"gpu0"}] }

\* The task collection (db.tasks): read-only for the node service.
TaskDocs ==
    [ tA |-> [_id |-> "tA", cpu |-> 2, cpu_arch |-> "x86_64", devices |-> {"gpu0"}],
      tB |-> [_id |-> "tB", cpu |-> 3, cpu_arch |-> NoArch, devices |-> {}],
      tArm |-> [_id |-> "tArm", cpu |-> 1, cpu_arch |-> "arm64", devices |-> {}],
      tGpu |-> [_id |-> "tGpu", cpu |-> 1, cpu_arch |-> NoArch, devices |-> {"gpu1"}] ]

\* Task ids a request may carry: the stored ones and one that is stored nowhere.
TaskIds == DOMAIN TaskDocs \cup {"tNone"}

\* Ids bson's ObjectId(...) raises InvalidId for (the tests send 'error').
MalformedNodeId == AbsentId + 1
MalformedTaskId == "error"

VARIABLES
    nodes,      \* db.nodes: node id -> node document
    tasks,      \* db.tasks: task id -> task document
    next_id,    \* the next ObjectId insert_one assigns
    issued,     \* number of requests started so far
    pc,         \* per request: position in the handler
    op,         \* per request: the operation it runs
    node_id,    \* per request: argument node_id
    task_id,    \* per request: argument task_id
    new_node,   \* per request: argument new_node of create
    node,       \* per request: local `node` (the document find_one returned)
    task,       \* per request: local `task`
    outcome,    \* per request: how the service call ended
    returned,   \* per request: the node the service call returned
    accesses,   \* per request: number of database calls it has made
    ev          \* one application of the feasibility evaluator to given inputs

vars == <<nodes, tasks, next_id, issued, pc, op, node_id, task_id, new_node,
          node, task, outcome, returned, accesses, ev>>

db == <<nodes, tasks, next_id>>

\* What the requests' handlers read and write.
service == <<nodes, tasks, next_id, issued, pc, op, node_id, task_id, new_node,
             node, task, outcome, returned, accesses>>

\* Node ids a request may carry: the stored ones and one stored nowhere.
NodeIds == DOMAIN nodes \cup {AbsentId}

(* ----- pure helpers ----- *)
RECURSIVE TotalCpu(_)
TotalCpu(ts) == IF ts = <<>> THEN 0 ELSE Head(ts).cpu + TotalCpu(Tail(ts))

\* Variant of Pull that drops the last task when none has the id.
Pull_DropsLast(ts, tid) ==
    IF \E i \in 1..Len(ts) : ts[i]._id = tid
    THEN SelectSeq(ts, LAMBDA t : t._id # tid)
    ELSE SubSeq(ts, 1, Len(ts) - 1)

\* Variant of Pull that empties the taskset.
Pull_Clears(ts, tid) == SubSeq(ts, 1, 0)

RECURSIVE Pull(_, _)
\* $pull: the sequence without the elements whose _id is tid, order kept.
Pull(ts, tid) ==
    IF ts = <<>> THEN <<>>
    ELSE IF Head(ts)._id = tid THEN Pull(Tail(ts), tid)
    ELSE <<Head(ts)>> \o Pull(Tail(ts), tid)

\* Variant of evaluate that looks at the devices first.
evaluate_DevicesFirst(capacity, candidateTasks) ==
    IF \E i \in 1..Len(candidateTasks) :
           ~(candidateTasks[i].devices \subseteq capacity.devices)
    THEN "MissingDevices"
    ELSE IF TotalCpu(candidateTasks) > capacity.cpu_cores
    THEN "InsufficientCPU"
    ELSE IF \E i \in 1..Len(candidateTasks) :
                /\ candidateTasks[i].cpu_arch # NoArch
                /\ candidateTasks[i].cpu_arch # capacity.cpu_arch
    THEN "ArchitectureMismatch"
    ELSE "Feasible"

\* Feasibility Evaluator: CPU, then architecture, then devices.
evaluate(capacity, candidateTasks) ==
    IF TotalCpu(candidateTasks) > capacity.cpu_cores
    THEN "InsufficientCPU"
    ELSE IF \E i \in 1..Len(candidateTasks) :
                /\ candidateTasks[i].cpu_arch # NoArch
                /\ candidateTasks[i].cpu_arch # capacity.cpu_arch
    THEN "ArchitectureMismatch"
    ELSE IF \E i \in 1..Len(candidateTasks) :
                ~(candidateTasks[i].devices \subseteq capacity.devices)
    THEN "MissingDevices"
    ELSE "Feasible"

\* What add_task raises for a verdict of the evaluator ("" = nothing raised).
check_feasibility(n, new_taskset) ==
    LET verdict == evaluate(n, new_taskset) IN
    IF verdict = "Feasible" THEN ""
    ELSE IF verdict = "MissingDevices" THEN "MissingDevices"
    ELSE "NotFeasible"

Idle(c) == pc[c] \in {"idle", "done"}

\* A request begins: its arguments are bound.
Begin(c, o, nid, tid, nn) ==
    /\ Idle(c)
    /\ issued < MaxRequests
    /\ issued' = issued + 1
    /\ op' = [op EXCEPT ![c] = o]
    /\ node_id' = [node_id EXCEPT ![c] = nid]
    /\ task_id' = [task_id EXCEPT ![c] = tid]
    /\ new_node' = [new_node EXCEPT ![c] = nn]

\* The call returns or raises: its locals are gone, its result is `how`, `ret`.
Finish(c, how, ret) ==
    /\ pc' = [pc EXCEPT ![c] = "done"]
    /\ outcome' = [outcome EXCEPT ![c] = how]
    /\ returned' = [returned EXCEPT ![c] = ret]
    /\ node' = [node EXCEPT ![c] = None]
    /\ task' = [task EXCEPT ![c] = None]

\* The call goes on to its next database call with locals n and t.
Goto(c, label, n, t) ==
    /\ pc' = [pc EXCEPT ![c] = label]
    /\ outcome' = [outcome EXCEPT ![c] = Nothing]
    /\ returned' = [returned EXCEPT ![c] = None]
    /\ node' = [node EXCEPT ![c] = n]
    /\ task' = [task EXCEPT ![c] = t]

args == <<issued, op, node_id, task_id, new_node>>

\* The request has made k database calls.
Access(c, k) == accesses' = [accesses EXCEPT ![c] = k]

\* ObjectId(oid) does not raise InvalidId.
ValidNodeId(oid) == oid # MalformedNodeId
ValidTaskId(oid) == oid # MalformedTaskId

(* ----- post_node_tasks without a task_id ----- *)
\* task_id = request.json.get('task_id') is None: answered before any service call.
PostNodeTasksNoTaskId(c) ==
    \E nid \in NodeIds :
        /\ Begin(c, "add_task", nid, NoTask, None)
        /\ Finish(c, Nothing, None)
        /\ Access(c, 0)
        /\ UNCHANGED <<db, ev>>

(* ----- NodeService.add_task ----- *)
\* node = db.nodes.find_one({'_id': ObjectId(node_id)}); NotFound if None.
AddTaskFindNode(c, nid, tid) ==
    /\ Begin(c, "add_task", nid, tid, None)
    /\ IF ~ValidNodeId(nid)
       THEN Finish(c, "InvalidId", None) /\ Access(c, 0)
       ELSE IF nid \notin DOMAIN nodes
       THEN Finish(c, "NotFoundNode", None) /\ Access(c, 1)
       ELSE Goto(c, "add_load_task", nodes[nid], None) /\ Access(c, 1)
    /\ UNCHANGED <<db, ev>>

\* add_task called with well-formed ids.
AddTaskLoadNode(c) ==
    \E nid \in NodeIds, tid \in TaskIds : AddTaskFindNode(c, nid, tid)

\* add_task called with a malformed node id, task id, or both.
AddTaskMalformed(c) ==
    \E nid \in NodeIds \cup {MalformedNodeId}, tid \in {"tA", MalformedTaskId} :
        /\ ~ValidNodeId(nid) \/ ~ValidTaskId(tid)
        /\ AddTaskFindNode(c, nid, tid)

\* Variants of AddTaskVerdict with one check of add_task changed.
AddTaskVerdict_NoCheck(c) ==
    IF ~ValidTaskId(task_id[c]) THEN "InvalidId"
    ELSE IF task_id[c] \notin DOMAIN tasks THEN "NotFoundTask" ELSE ""

AddTaskVerdict_WrongError(c) ==
    IF ~ValidTaskId(task_id[c]) THEN "InvalidId"
    ELSE IF task_id[c] \notin DOMAIN tasks THEN "NotFeasible"
    ELSE check_feasibility(node[c], Append(node[c].tasks, tasks[task_id[c]]))

AddTaskVerdict_OldTaskset(c) ==
    IF ~ValidTaskId(task_id[c]) THEN "InvalidId"
    ELSE IF task_id[c] \notin DOMAIN tasks THEN "NotFoundTask"
    ELSE check_feasibility(node[c], node[c].tasks)

\* The outcome of ObjectId(task_id), the task lookup and the feasibility
\* check ("" = go on).
AddTaskVerdict(c) ==
    IF ~ValidTaskId(task_id[c]) THEN "InvalidId"
    ELSE IF task_id[c] \notin DOMAIN tasks THEN "NotFoundTask"
    ELSE check_feasibility(node[c], Append(node[c].tasks, tasks[task_id[c]]))

\* task = db.tasks.find_one({'_id': ObjectId(task_id)}); NotFound if None;
\* new_taskset; NotFeasible.
AddTaskLoadTask(c) ==
    /\ pc[c] = "add_load_task"
    /\ Access(c, IF ValidTaskId(task_id[c]) THEN accesses[c] + 1 ELSE accesses[c])
    /\ IF AddTaskVerdict(c) # ""
       THEN Finish(c, AddTaskVerdict(c), None)
       ELSE Goto(c, "add_push", node[c], tasks[task_id[c]])
    /\ UNCHANGED <<db, args, ev>>

\* Variant of Pushed that writes back the taskset the request read.
Pushed_FromRead(c) == [nodes[node_id[c]] EXCEPT !.tasks = Append(node[c].tasks, task[c])]

\* The document find_one_and_update({'_id': node_id}, {'$push': ...}) leaves.
Pushed(c) == [nodes[node_id[c]] EXCEPT !.tasks = Append(@, task[c])]

\* Variant of AddTaskPush that moves the task document out of db.tasks.
AddTaskPush_ConsumesTask(c) ==
    /\ pc[c] = "add_push"
    /\ Access(c, accesses[c] + 1)
    /\ IF node_id[c] \in DOMAIN nodes
       THEN /\ nodes' = [nodes EXCEPT ![node_id[c]] = Pushed(c)]
            /\ tasks' = [t \in DOMAIN tasks \ {task_id[c]} |-> tasks[t]]
            /\ Finish(c, "Success", Pushed(c))
       ELSE /\ UNCHANGED <<nodes, tasks>>
            /\ Finish(c, "Exception", None)
    /\ UNCHANGED <<next_id, args, ev>>

\* Variant of AddTaskPush that returns the document as it was before the update.
AddTaskPush_ReturnsBefore(c) ==
    /\ pc[c] = "add_push"
    /\ Access(c, accesses[c] + 1)
    /\ IF node_id[c] \in DOMAIN nodes
       THEN /\ nodes' = [nodes EXCEPT ![node_id[c]] = Pushed(c)]
            /\ Finish(c, "Success", nodes[node_id[c]])
       ELSE /\ UNCHANGED nodes
            /\ Finish(c, "Exception", None)
    /\ UNCHANGED <<tasks, next_id, args, ev>>

\* Variant of AddTaskPush whose update is an upsert.
AddTaskPush_Upsert(c) ==
    /\ pc[c] = "add_push"
    /\ Access(c, accesses[c] + 1)
    /\ IF node_id[c] \in DOMAIN nodes
       THEN /\ nodes' = [nodes EXCEPT ![node_id[c]] = Pushed(c)]
            /\ Finish(c, "Success", Pushed(c))
       ELSE /\ nodes' = [i \in DOMAIN nodes \cup {node_id[c]} |->
                           IF i = node_id[c] THEN [tasks |-> <<task[c]>>] ELSE nodes[i]]
            /\ Finish(c, "Success", [tasks |-> <<task[c]>>])
    /\ UNCHANGED <<tasks, next_id, args, ev>>

\* db.nodes.find_one_and_update(..., $push, AFTER); Schema().load(None) raises.
AddTaskPush(c) ==
    /\ pc[c] = "add_push"
    /\ Access(c, accesses[c] + 1)
    /\ IF node_id[c] \in DOMAIN nodes
       THEN /\ nodes' = [nodes EXCEPT ![node_id[c]] = Pushed(c)]
            /\ Finish(c, "Success", Pushed(c))
       ELSE /\ UNCHANGED nodes
            /\ Finish(c, "Exception", None)
    /\ UNCHANGED <<tasks, next_id, args, ev>>

(* ----- NodeService.get_by_id ----- *)
\* find_one({'_id': ObjectId(node_id)}): returns the node, or None.
GetById(c) ==
    \E nid \in NodeIds :
        /\ Begin(c, "get_by_id", nid, NoTask, None)
        /\ Finish(c, "Success", IF nid \in DOMAIN nodes THEN nodes[nid] ELSE None)
        /\ Access(c, 1)
        /\ UNCHANGED <<db, ev>>

(* ----- NodeService.create ----- *)
\* find_one({'name': ...}); ValueError if the name is in use.
CreateFind(c) ==
    \E nm \in Names, cap \in NodeCaps :
        /\ next_id + Cardinality({d \in Clients : pc[d] = "create_insert"}) <= MaxNodes
        /\ Begin(c, "create", NoId, NoTask,
                 [name |-> nm, cpu_cores |-> cap.cpu_cores,
                  cpu_arch |-> cap.cpu_arch, devices |-> cap.devices,
                  tasks |-> <<>>])
        /\ IF \E i \in DOMAIN nodes : nodes[i].name = nm
           THEN Finish(c, "ValueError", None)
           ELSE Goto(c, "create_insert", None, None)
        /\ Access(c, 1)
        /\ UNCHANGED <<db, ev>>

\* insert_one(...).inserted_id
CreateInsert(c) ==
    /\ pc[c] = "create_insert"
    /\ Access(c, accesses[c] + 1)
    /\ nodes' = [i \in DOMAIN nodes \cup {next_id} |->
                    IF i = next_id THEN new_node[c] ELSE nodes[i]]
    /\ next_id' = next_id + 1
    /\ Finish(c, "Success", [_id |-> next_id])
    /\ UNCHANGED <<tasks, args, ev>>

(* ----- NodeService.delete ----- *)
\* find_one_and_delete: returns the deleted node, or None.
Delete(c) ==
    \E nid \in NodeIds :
        /\ Begin(c, "delete", nid, NoTask, None)
        /\ Access(c, 1)
        /\ IF nid \in DOMAIN nodes
           THEN /\ nodes' = [i \in DOMAIN nodes \ {nid} |-> nodes[i]]
                /\ Finish(c, "Success", nodes[nid])
           ELSE /\ UNCHANGED nodes
                /\ Finish(c, "Success", None)
        /\ UNCHANGED <<tasks, next_id, ev>>

(* ----- NodeService.remove_task (detach) ----- *)
\* Load the node; NotFound if absent.
RemoveTaskLoad(c) ==
    \E nid \in NodeIds, tid \in TaskIds :
        /\ Begin(c, "remove_task", nid, tid, None)
        /\ Access(c, 1)
        /\ IF nid \notin DOMAIN nodes
           THEN Finish(c, "NotFoundNode", None)
           ELSE Goto(c, "remove_pull", nodes[nid], None)
        /\ UNCHANGED <<db, ev>>

\* The document the removal of task_id leaves.
Pulled(c) == [nodes[node_id[c]] EXCEPT !.tasks = Pull(@, task_id[c])]

\* Atomic removal of the task with the given id from the stored taskset.
RemoveTaskPull(c) ==
    /\ pc[c] = "remove_pull"
    /\ Access(c, accesses[c] + 1)
    /\ IF node_id[c] \in DOMAIN nodes
       THEN /\ nodes' = [nodes EXCEPT ![node_id[c]] = Pulled(c)]
            /\ Finish(c, "Success", Pulled(c))
       ELSE /\ UNCHANGED nodes
            /\ Finish(c, "NotFoundNode", None)
    /\ UNCHANGED <<tasks, next_id, args, ev>>

(* ----- controllers: the status a service outcome is answered with ----- *)
\* post_node: ValidationError 400, AlreadyPresent 409, anything else raised 500.
post_node(how) ==
    IF how = "Success" THEN 200
    ELSE IF how = "ValidationError" THEN 400
    ELSE IF how = "AlreadyPresent" THEN 409
    ELSE 500

\* get_node: whatever get_by_id returns (a node or None) is dumped and
\* answered 200; InvalidId 400, NotFound 404, anything else raised 500.
get_node(how, ret) ==
    IF how = "Success" THEN [status |-> 200, error |-> FALSE]
    ELSE IF how = "InvalidId" THEN [status |-> 400, error |-> TRUE]
    ELSE IF how \in {"NotFoundNode", "NotFoundTask"} THEN [status |-> 404, error |-> TRUE]
    ELSE [status |-> 500, error |-> TRUE]

\* delete_node: whatever delete returns (the deleted node or None) is dumped
\* and answered 200; InvalidId 400, NotFound 404, anything else raised 500.
delete_node(how, ret) ==
    IF how = "Success" THEN [status |-> 200, error |-> FALSE]
    ELSE IF how = "InvalidId" THEN [status |-> 400, error |-> TRUE]
    ELSE IF how \in {"NotFoundNode", "NotFoundTask"} THEN [status |-> 404, error |-> TRUE]
    ELSE [status |-> 500, error |-> TRUE]

\* Variant of post_node_tasks that answers NotFound like any other exception.
post_node_tasks_NotFound500(tid, how, ret) ==
    IF tid = NoTask THEN [status |-> 400, error |-> TRUE]
    ELSE IF how = "Success"
    THEN (IF ret = None THEN [status |-> 500, error |-> TRUE]
          ELSE [status |-> 200, error |-> FALSE])
    ELSE IF how = "InvalidId" THEN [status |-> 400, error |-> TRUE]
    ELSE [status |-> 500, error |-> TRUE]

\* post_node_tasks: the response (status, whether the body has 'error') for
\* the request's task_id and the way NodeService.add_task ended.
post_node_tasks(tid, how, ret) ==
    IF tid = NoTask THEN [status |-> 400, error |-> TRUE]
    ELSE IF how = "Success"
    THEN (IF ret = None THEN [status |-> 500, error |-> TRUE]
          ELSE [status |-> 200, error |-> FALSE])
    ELSE IF how = "InvalidId" THEN [status |-> 400, error |-> TRUE]
    ELSE IF how \in {"NotFoundNode", "NotFoundTask"} THEN [status |-> 404, error |-> TRUE]
    ELSE IF how \in {"NotFeasible", "MissingDevices"} THEN [status |-> 500, error |-> TRUE]
    ELSE [status |-> 500, error |-> TRUE]

\* delete_node_tasks: a None result 500, InvalidId 400, NotFound 404, else 500.
delete_node_tasks(how, ret) ==
    IF how = "Success" THEN (IF ret = None THEN 500 ELSE 200)
    ELSE IF how = "InvalidId" THEN 400
    ELSE IF how \in {"NotFoundNode", "NotFoundTask"} THEN 404
    ELSE 500

(* ----- the system ----- *)
\* No request has been made.
RequestsInit ==
    /\ issued = 0
    /\ pc = [c \in Clients |-> "idle"]
    /\ op = [c \in Clients |-> Nothing]
    /\ node_id = [c \in Clients |-> NoId]
    /\ task_id = [c \in Clients |-> NoTask]
    /\ new_node = [c \in Clients |-> None]
    /\ node = [c \in Clients |-> None]
    /\ task = [c \in Clients |-> None]
    /\ outcome = [c \in Clients |-> Nothing]
    /\ returned = [c \in Clients |-> None]
    /\ accesses = [c \in Clients |-> 0]

ServiceInit ==
    /\ nodes = <<>>
    /\ tasks = TaskDocs
    /\ next_id = 1
    /\ RequestsInit

Init ==
    /\ ServiceInit
    /\ ev = None

Next ==
    \E c \in Clients :
        \/ AddTaskLoadNode(c)
        \/ AddTaskLoadTask(c)
        \/ AddTaskPush(c)
        \/ CreateFind(c)
        \/ CreateInsert(c)
        \/ Delete(c)
        \/ RemoveTaskLoad(c)
        \/ RemoveTaskPull(c)

Spec == Init /\ [][Next]_vars

\* The same requests, and those the controllers answer without the service
\* changing anything: no task_id, malformed ids, get_node.
ApiNext ==
    \/ Next
    \/ \E c \in Clients :
        \/ PostNodeTasksNoTaskId(c)
        \/ AddTaskMalformed(c)
        \/ GetById(c)

ApiSpec == Init /\ [][ApiNext]_vars

\* The service with one node already registered (the state a create leaves).
RegisteredInit ==
    /\ nodes = [i \in {1} |->
                   [name |-> "Test1", cpu_cores |-> 4, cpu_arch |-> "x86_64",
                    devices |-> {"gpu0"}, tasks |-> <<>>]]
    /\ tasks = TaskDocs
    /\ next_id = 2
    /\ RequestsInit
    /\ ev = None

RegisteredSpec == RegisteredInit /\ [][Next]_vars

(* ----- the feasibility evaluator applied to given inputs ----- *)
MaxLen == 2

EvalCaps ==
    { [cpu_cores |-> n, cpu_arch |-> a, devices |-> d] :
        n \in {2, 4}, a \in {"x86_64", "arm64"}, d \in {{}, {"gpu0"}} }

EvalTasks ==
    { [_id |-> "t", cpu |-> n, cpu_arch |-> a, devices |-> d] :
        n \in {1, 3}, a \in {NoArch, "x86_64"}, d \in {{}, {"gpu0"}, {"gpu0", "gpu1"}} }

EvalTasksets == UNION { [1..k -> EvalTasks] : k \in 0..MaxLen }

EvalInit ==
    /\ ServiceInit
    /\ ev \in { [capacity |-> cap, candidateTasks |-> ts, verdict |-> Nothing, raised |-> Nothing] :
                  cap \in EvalCaps, ts \in EvalTasksets }

Evaluate ==
    /\ ev.verdict = Nothing
    /\ ev' = [ev EXCEPT !.verdict = evaluate(ev.capacity, ev.candidateTasks),
                        !.raised = check_feasibility(ev.capacity, ev.candidateTasks)]
    /\ UNCHANGED service

EvalNext == Evaluate

EvalSpec == EvalInit /\ [][EvalNext]_vars

(* ======================= properties ======================= *)
TaskIdsOf(ts) == { ts[i]._id : i \in 1..Len(ts) }

\* C1: in every reachable state, for every node, the CPU-core requirements of
\* the tasks in its taskset sum to at most the node's CPU core count.
C1_CpuWithinCapacity ==
    \A n \in DOMAIN nodes : TotalCpu(nodes[n].tasks) <= nodes[n].cpu_cores

\* C2: when two attach calls race on one node (the second has read the taskset
\* the first appended to, each task fits alone on it, the two together exceed
\* the CPU capacity) and the first has returned success, the second does not
\* return success.
C2_RacingAttachNotBothSucceed ==
    [][\A c \in Clients, d \in Clients :
         ( /\ c # d
           /\ pc[c] = "add_push" /\ pc'[c] = "done"
           /\ op[d] = "add_task" /\ pc[d] = "done" /\ outcome[d] = "Success"
           /\ node_id[d] = node_id[c]
           /\ node_id[c] \in DOMAIN nodes
           /\ returned[d].tasks = Append(node[c].tasks, tasks[task_id[d]])
           /\ nodes[node_id[c]].tasks = returned[d].tasks
           /\ evaluate(node[c], returned[d].tasks) = "Feasible"
           /\ evaluate(node[c], Append(node[c].tasks, task[c])) = "Feasible"
           /\ TotalCpu(Append(returned[d].tasks, task[c])) > node[c].cpu_cores )
         => outcome'[c] # "Success"]_vars

\* C3: the append of an attach is conditional: whenever an attach changes a
\* node's stored taskset, the stored taskset at the moment of the write equals
\* the taskset the attach read and computed its feasibility verdict on.
C3_AppendOnlyOnUnchangedTaskset ==
    [][\A c \in Clients :
         (pc[c] = "add_push" /\ pc'[c] = "done" /\ nodes' # nodes)
         => nodes[node_id[c]].tasks = node[c].tasks]_vars

C5_AttachNotFound ==
    [][\A c \in Clients :
         /\ (AddTaskLoadNode(c) /\ ValidNodeId(node_id'[c])
                /\ node_id'[c] \notin DOMAIN nodes)
              => (outcome'[c] = "NotFoundNode" /\ pc'[c] = "done" /\ UNCHANGED db)
         /\ (AddTaskLoadTask(c) /\ ValidTaskId(task_id[c])
                /\ task_id[c] \notin DOMAIN tasks)
              => (outcome'[c] = "NotFoundTask" /\ pc'[c] = "done" /\ UNCHANGED db)]_vars

\* One attach whose node and task were both absent ended NotFound for the
\* node, another ended NotFound for its task on a stored node.
C5_Witness ==
    \E c \in Clients, d \in Clients :
        /\ op[c] = "add_task" /\ pc[c] = "done" /\ outcome[c] = "NotFoundNode"
        /\ ValidTaskId(task_id[c]) /\ task_id[c] \notin DOMAIN tasks
        /\ op[d] = "add_task" /\ pc[d] = "done" /\ outcome[d] = "NotFoundTask"
        /\ node_id[d] \in DOMAIN nodes

\* C6: when the node's current tasks plus the new task are infeasible, attach
\* fails with NotFeasible (MissingDevices for a device shortfall), the request
\* ends there, and the node collection is exactly as it was.
C6_InfeasibleRejected ==
    [][\A c \in Clients :
         ( /\ pc[c] = "add_load_task" /\ pc'[c] # "add_load_task"
           /\ task_id[c] \in DOMAIN tasks
           /\ evaluate(node[c], Append(node[c].tasks, tasks[task_id[c]])) # "Feasible" )
         => ( /\ outcome'[c] \in {"NotFeasible", "MissingDevices"}
              /\ pc'[c] = "done"
              /\ nodes' = nodes )]_vars

\* Scenario A: a 4-core node holding the 2-core task has rejected the 3-core
\* task and still holds only the 2-core task.
C6_Witness ==
    \E c \in Clients :
        /\ op[c] = "add_task" /\ pc[c] = "done" /\ outcome[c] = "NotFeasible"
        /\ task_id[c] = "tB"
        /\ node_id[c] \in DOMAIN nodes
        /\ nodes[node_id[c]].cpu_cores = 4
        /\ TaskIdsOf(nodes[node_id[c]].tasks) = {"tA"}
        /\ Len(nodes[node_id[c]].tasks) = 1

CpuExceeded(capacity, ts) == TotalCpu(ts) > capacity.cpu_cores

ArchDiffers(capacity, ts) ==
    \E i \in 1..Len(ts) : ts[i].cpu_arch \notin {NoArch, capacity.cpu_arch}

DeviceMissing(capacity, ts) ==
    \E i \in 1..Len(ts) : \E dev \in ts[i].devices : dev \notin capacity.devices

\* C8: the evaluation reports the first failing constraint class in the order
\* CPU, architecture, devices: InsufficientCPU whenever the CPU sum exceeds the
\* capacity (whatever else fails), else ArchitectureMismatch when an
\* architecture differs, else MissingDevices; and add_task raises MissingDevices
\* only in the last case, NotFeasible in the other two.
C8_FirstFailingClassReported ==
    ev.verdict # Nothing =>
        LET cap == ev.capacity
            ts == ev.candidateTasks
        IN  /\ CpuExceeded(cap, ts)
                 => (ev.verdict = "InsufficientCPU" /\ ev.raised = "NotFeasible")
            /\ (~CpuExceeded(cap, ts) /\ ArchDiffers(cap, ts))
                 => (ev.verdict = "ArchitectureMismatch" /\ ev.raised = "NotFeasible")
            /\ (~CpuExceeded(cap, ts) /\ ~ArchDiffers(cap, ts) /\ DeviceMissing(cap, ts))
                 => (ev.verdict = "MissingDevices" /\ ev.raised = "MissingDevices")
            /\ (~CpuExceeded(cap, ts) /\ ~ArchDiffers(cap, ts) /\ ~DeviceMissing(cap, ts))
                 => (ev.verdict = "Feasible" /\ ev.raised = "")

\* A taskset that violates the CPU, the architecture and the device constraint
\* at once has been evaluated.
C8_Witness ==
    /\ ev.verdict # Nothing
    /\ CpuExceeded(ev.capacity, ev.candidateTasks)
    /\ ArchDiffers(ev.capacity, ev.candidateTasks)
    /\ DeviceMissing(ev.capacity, ev.candidateTasks)

\* C9: every attach ends in exactly one of Success, NotFound, NotFeasible
\* (MissingDevices included) or TransientConflict, and an attach whose node
\* document changed between its load and its update does not end in Success
\* (it is retried or ends in TransientConflict).
C9_AttachEndsInTaxonomy ==
    [][\A c \in Clients :
         (/\ op[c] = "add_task" /\ ValidTaskId(task_id[c])
          /\ pc[c] \in {"add_load_task", "add_push"} /\ pc'[c] = "done")
         => /\ outcome'[c] \in {"Success", "NotFoundNode", "NotFoundTask",
                                "NotFeasible", "MissingDevices", "TransientConflict"}
            /\ (pc[c] = "add_push" /\ outcome'[c] = "Success")
                 => nodes[node_id[c]] = node[c]]_vars

\* C10: in every reachable state no two stored nodes have the same name.
C10_UniqueNames ==
    \A i \in DOMAIN nodes, j \in DOMAIN nodes :
        nodes[i].name = nodes[j].name => i = j

\* C11: the add-task endpoint answers every outcome with one status: no
\* task_id 400 with the service never called, InvalidId 400, NotFound 404,
\* NotFeasible, MissingDevices, a None result or any other exception 500, a
\* returned node 200; every response other than 200 carries 'error'.
C11_AddTaskStatus ==
    /\ post_node_tasks("tA", "Success", None) = [status |-> 500, error |-> TRUE]
    /\ \A c \in Clients :
         (op[c] = "add_task" /\ pc[c] = "done")
         => LET r == post_node_tasks(task_id[c], outcome[c], returned[c]) IN
            /\ r.status \in {200, 400, 404, 500}
            /\ r.status # 200 => r.error
            /\ task_id[c] = NoTask
                 => (r.status = 400 /\ outcome[c] = Nothing /\ accesses[c] = 0)
            /\ task_id[c] # NoTask
                 => /\ outcome[c] = "InvalidId" => r.status = 400
                    /\ outcome[c] \in {"NotFoundNode", "NotFoundTask"} => r.status = 404
                    /\ outcome[c] \in {"NotFeasible", "MissingDevices", "Exception"}
                         => r.status = 500
                    /\ outcome[c] = "Success" => (r.status = 200 /\ returned[c] # None)
                    /\ outcome[c] \in {"InvalidId", "NotFoundNode", "NotFoundTask",
                                       "NotFeasible", "MissingDevices", "Exception",
                                       "Success"}

\* One add-task request had no task_id and was answered without a service
\* call, another had its task on a stored node not found.
C11_Witness ==
    \E c \in Clients, d \in Clients :
        /\ op[c] = "add_task" /\ pc[c] = "done" /\ task_id[c] = NoTask
        /\ outcome[c] = Nothing
        /\ op[d] = "add_task" /\ pc[d] = "done" /\ outcome[d] = "NotFoundTask"
        /\ post_node_tasks(task_id[d], outcome[d], returned[d]).status = 404

\* C12: in every reachable state each task id is in the taskset of at most
\* one node.
C12_TaskOnAtMostOneNode ==
    \A n \in DOMAIN nodes, m \in DOMAIN nodes :
        n # m => TaskIdsOf(nodes[n].tasks) \cap TaskIdsOf(nodes[m].tasks) = {}

\* C13: an attach whose node id or task id is malformed makes no database
\* call at all and ends with InvalidId, for a malformed node id and for a
\* malformed task id alike.
C13_MalformedIdRejectedBeforeAccess ==
    \A c \in Clients :
        ( /\ op[c] = "add_task" /\ task_id[c] # NoTask
          /\ ~ValidNodeId(node_id[c]) \/ ~ValidTaskId(task_id[c]) )
        => /\ accesses[c] = 0
           /\ pc[c] = "done" /\ outcome[c] = "InvalidId"

\* C14: attach and detach never modify the task collection: in every
\* reachable state, whatever attach and detach steps were taken, successful
\* or failed, db.tasks holds exactly the task documents it started with,
\* field for field.
C14_TaskCollectionUnchanged ==
    /\ DOMAIN tasks = DOMAIN TaskDocs
    /\ \A t \in DOMAIN tasks : tasks[t] = TaskDocs[t]

\* One request attached a task and another then detached it.
C14_Witness ==
    \E c \in Clients, d \in Clients :
        /\ op[c] = "add_task" /\ pc[c] = "done" /\ outcome[c] = "Success"
        /\ op[d] = "remove_task" /\ pc[d] = "done" /\ outcome[d] = "Success"
        /\ node_id[d] = node_id[c] /\ task_id[d] = task_id[c]
        /\ node_id[c] \in DOMAIN nodes /\ nodes[node_id[c]].tasks = <<>>
        /\ tasks = TaskDocs

\* C15: whenever get_node or delete_node is called with the well-formed id of
\* no stored node, the response is 404 with an 'error' field.
C15_AbsentNodeAnswered404 ==
    \A c \in Clients :
        ( /\ pc[c] = "done" /\ op[c] \in {"get_by_id", "delete"}
          /\ outcome[c] # "Success" \/ returned[c] = None )
        => (IF op[c] = "get_by_id"
            THEN get_node(outcome[c], returned[c])
            ELSE delete_node(outcome[c], returned[c])) = [status |-> 404, error |-> TRUE]

\* C16: attaching a task the node already holds is not an error and changes
\* nothing: the call goes on to its update, returns the node, and the node's
\* taskset after the call equals the one before it.
C16_ReattachIsIdempotent ==
    [][\A c \in Clients :
         /\ ( /\ pc[c] = "add_load_task" /\ pc'[c] # "add_load_task"
              /\ task_id[c] \in TaskIdsOf(node[c].tasks) )
            => pc'[c] = "add_push"
         /\ ( /\ pc[c] = "add_push" /\ pc'[c] = "done"
              /\ node_id[c] \in DOMAIN nodes
              /\ task_id[c] \in TaskIdsOf(nodes[node_id[c]].tasks) )
            => /\ outcome'[c] = "Success"
               /\ returned'[c] = nodes'[node_id[c]]
               /\ nodes'[node_id[c]].tasks = nodes[node_id[c]].tasks]_vars

\* C17: a successful attach returns the node as stored right after its own
\* write: the returned taskset is the stored one, its last element is the
\* attached task, and before it come the tasks stored before the write, in
\* their order.
C17_AttachReturnsUpdatedNode ==
    [][\A c \in Clients :
         (pc[c] = "add_push" /\ pc'[c] = "done" /\ outcome'[c] = "Success")
         => LET before == nodes[node_id[c]].tasks
                after == returned'[c].tasks
            IN /\ returned'[c] = nodes'[node_id[c]]
               /\ Len(after) = Len(before) + 1
               /\ after[Len(after)] = tasks[task_id[c]]
               /\ SubSeq(after, 1, Len(before)) = before]_vars

\* An attach returned a node whose taskset holds another task before the
\* attached one, and that node is the stored one.
C17_Witness ==
    \E c \in Clients :
        /\ op[c] = "add_task" /\ pc[c] = "done" /\ outcome[c] = "Success"
        /\ node_id[c] \in DOMAIN nodes /\ returned[c] = nodes[node_id[c]]
        /\ Len(returned[c].tasks) = 2
        /\ returned[c].tasks[1]._id # task_id[c]
        /\ returned[c].tasks[2]._id = task_id[c]

C19_AttachToDeletedNodeFails ==
    [][\A c \in Clients :
         (pc[c] = "add_push" /\ pc'[c] = "done" /\ node_id[c] \notin DOMAIN nodes)
         => /\ nodes' = nodes
            /\ node_id[c] \notin DOMAIN nodes'
            /\ outcome'[c] # "Success"
            /\ LET r == post_node_tasks(task_id[c], outcome'[c], returned'[c])
               IN r.status = 500 /\ r.error]_vars

\* An attach ended without success on a node that another request deleted
\* after the attach had loaded it.
C19_Witness ==
    \E c \in Clients, d \in Clients :
        /\ op[c] = "add_task" /\ pc[c] = "done" /\ outcome[c] = "Exception"
        /\ accesses[c] = 3
        /\ op[d] = "delete" /\ pc[d] = "done" /\ node_id[d] = node_id[c]
        /\ returned[d] # None
        /\ node_id[c] \notin DOMAIN nodes

IsPrefix(s, t) == Len(s) <= Len(t) /\ SubSeq(t, 1, Len(s)) = s

\* C20: no successful attach is lost.  A successful attach leaves its task in
\* the stored taskset behind everything stored before, and from then on every
\* step keeps each stored taskset as a prefix of the new one, except a detach
\* on that node, which removes only the tasks with its id, and a deletion of
\* the node: no writer overwrites another writer's append.
C20_NoAttachLost ==
    [][/\ \A c \in Clients :
            (pc[c] = "add_push" /\ pc'[c] = "done" /\ outcome'[c] = "Success")
            => nodes'[node_id[c]].tasks = Append(nodes[node_id[c]].tasks, tasks[task_id[c]])
       /\ \A n \in DOMAIN nodes :
            \/ /\ n \in DOMAIN nodes'
               /\ IsPrefix(nodes[n].tasks, nodes'[n].tasks)
            \/ /\ n \in DOMAIN nodes'
               /\ \E c \in Clients :
                     /\ pc[c] = "remove_pull" /\ pc'[c] = "done" /\ node_id[c] = n
                     /\ nodes'[n].tasks =
                            SelectSeq(nodes[n].tasks, LAMBDA t : t._id # task_id[c])
            \/ /\ n \notin DOMAIN nodes'
               /\ \E c \in Clients :
                     op'[c] = "delete" /\ pc'[c] = "done" /\ node_id'[c] = n]_vars

\* Two requests attached different tasks to the same node, both succeeded,
\* and the stored taskset holds both tasks.
C20_Witness ==
    \E c \in Clients, d \in Clients :
        /\ c # d /\ node_id[c] = node_id[d] /\ task_id[c] # task_id[d]
        /\ op[c] = "add_task" /\ pc[c] = "done" /\ outcome[c] = "Success"
        /\ op[d] = "add_task" /\ pc[d] = "done" /\ outcome[d] = "Success"
        /\ node_id[c] \in DOMAIN nodes
        /\ {task_id[c], task_id[d]} \subseteq TaskIdsOf(nodes[node_id[c]].tasks)

====
